---- MODULE Spec2Model ----
(***************************************************************************)
(* Model of src/kube.rs: the Kluster client of the Kubernetes API.         *)
(*                                                                         *)
(* State: the CA files on disk (environment), the outcome of Kluster::new, *)
(* the constructed Kluster, and one call record per calling thread.  A     *)
(* call is split at its only blocking point, the network read: the Start   *)
(* action runs the method up to the dispatch of the request (or to its     *)
(* early return / panic), Respond and ReadTimeout complete it.             *)
(***************************************************************************)
EXTENDS Integers, Sequences, FiniteSets, TLC

VARIABLES fs, ctor, kluster, calls

vars == <<fs, ctor, kluster, calls>>

(***************************************************************************)
(* Bounds and input sets                                                   *)
(***************************************************************************)
\* longest CA bundle, in PEM blocks
MaxBlocks == 2

Threads == {"t1", "t2"}

\* the caller of the sequential specification
Callers == {"t1"}

\* a PEM block is a certificate that the root store accepts ("good"), a
\* block that base64-decodes but is rejected by the root store ("badcert"),
\* or a block whose body does not decode ("badb64")
BlockKinds == {"good", "badcert", "badb64"}

Bundles == UNION {[1..n -> BlockKinds] : n \in 0..MaxBlocks}

NoFile == [exists |-> FALSE, blocks |-> <<>>]

CAFiles == {NoFile} \cup {[exists |-> TRUE, blocks |-> b] : b \in Bundles}

SmallFiles == {f \in CAFiles : Len(f.blocks) <= 1}

\* "ca.pem" is rewritten by the environment, "alt.pem" never is
CertPaths == {"ca.pem", "alt.pem"}

\* longer than any bundle "ca.pem" holds, so the two are told apart
AltFile == [exists |-> TRUE, blocks |-> [i \in 1..(MaxBlocks + 1) |-> "good"]]

Names == {"prod"}

Tokens == {"tokA", "tokB"}

\* a URL string, given by its parts: scheme ("" when the string has none),
\* authority ("" when it has none), whether the path starts with "/", and
\* the path segments
GoodServer == [scheme |-> "https", host |-> "k8s.local:6443", abs |-> TRUE,
               segs |-> <<"">>]

BadServer == [scheme |-> "", host |-> "", abs |-> FALSE,
              segs |-> <<"k8s.local:6443">>]

Servers == {GoodServer, BadServer}

\* "api/v1/pods" and "//[" (a network-path reference with an invalid host)
PodsPath == [scheme |-> "", host |-> "", abs |-> FALSE,
             segs |-> <<"api", "v1", "pods">>]

BadPath == [scheme |-> "", host |-> "[", abs |-> TRUE, segs |-> <<>>]

Paths == {PodsPath, BadPath}

None == <<>>

Some(x) == <<x>>

Timeouts == {None, Some(50)}

\* what the server does with a request: a JSON document of the requested
\* shape, a JSON document of another shape, a body that is not JSON, or a
\* network/TLS failure
Replies == {"json_T", "json_other", "garbage", "neterr"}

\* what the socket layer does when the timed get_read connects and sets
\* the read timeout
SockOutcomes == {"ready", "refused", "sockopt_failed"}

(***************************************************************************)
(* Results                                                                 *)
(***************************************************************************)
Pending == [kind |-> "Pending", val |-> "", cause |-> ""]

Ok(v) == [kind |-> "Ok", val |-> v, cause |-> ""]

Err(k, c) == [kind |-> "Err", val |-> k, cause |-> c]

Panic(c) == [kind |-> "Panic", val |-> "unwrap", cause |-> c]

\* KubeError::from for the error types the client meets (error.rs); the
\* kinds are named as the specification's error taxonomy names them
UrlParseError == Err("UrlParseError", "Url::parse")

UrlJoinError == Err("UrlJoinError", "Url::join")

KubeErrorFromHyper(c) == Err("TransportError", c)

KubeErrorFromIo(c) == Err("IoError", c)

KubeErrorFromSerde(c) == Err("DeserializationError", c)

(***************************************************************************)
(* Url::parse and Url::join                                                *)
(***************************************************************************)
NoUrl == [scheme |-> "", host |-> "", segs |-> <<>>]

ValidHost(h) == h # "["

Front(s) == IF s = <<>> THEN <<>> ELSE SubSeq(s, 1, Len(s) - 1)

\* an absolute URL needs a scheme and a valid authority
Url_parse(s) ==
    IF s.scheme = "" \/ ~ValidHost(s.host)
    THEN [ok |-> FALSE, url |-> NoUrl]
    ELSE [ok |-> TRUE,
          url |-> [scheme |-> s.scheme, host |-> s.host, segs |-> s.segs]]

\* reference resolution: an absolute reference replaces the base, a
\* network-path reference replaces the authority, an absolute path replaces
\* the path, a relative path is merged with the base's directory
Url_join(base, ref) ==
    IF ref.scheme # "" THEN Url_parse(ref)
    ELSE IF ref.host # ""
    THEN IF ValidHost(ref.host)
         THEN [ok |-> TRUE, url |-> [scheme |-> base.scheme, host |-> ref.host,
                                     segs |-> ref.segs]]
         ELSE [ok |-> FALSE, url |-> NoUrl]
    ELSE IF ref.abs
    THEN [ok |-> TRUE, url |-> [scheme |-> base.scheme, host |-> base.host,
                                segs |-> ref.segs]]
    ELSE [ok |-> TRUE, url |-> [scheme |-> base.scheme, host |-> base.host,
                                segs |-> Front(base.segs) \o ref.segs]]

(***************************************************************************)
(* Kluster::make_tlsclient                                                 *)
(***************************************************************************)
Count(blocks, kind) == Cardinality({i \in DOMAIN blocks : blocks[i] = kind})

\* RootCertStore::add_pem_file: Err(()) when the PEM blocks cannot be
\* extracted, else Ok((added, rejected))
add_pem_file(blocks) ==
    IF Count(blocks, "badb64") > 0
    THEN [ok |-> FALSE, valid |-> 0, invalid |-> 0]
    ELSE [ok |-> TRUE, valid |-> Count(blocks, "good"),
          invalid |-> Count(blocks, "badcert")]

NoTls == [roots |-> 0]

\* the TlsClient, the file it opened, the number of warnings printed, and
\* the panic of the unwrap on File::open or on add_pem_file
make_tlsclient(cert_path) ==
    LET f == fs[cert_path]
        added == add_pem_file(f.blocks)
    IN  IF ~f.exists
        THEN [res |-> Panic("File::open"), tls |-> NoTls, read |-> f,
              warnings |-> 0]
        ELSE IF ~added.ok
        THEN [res |-> Panic("add_pem_file"), tls |-> NoTls, read |-> f,
              warnings |-> 0]
        ELSE [res |-> Ok("TlsClient"), tls |-> [roots |-> added.valid],
              read |-> f,
              warnings |-> IF added.invalid > 0 THEN 1 ELSE 0]

\* HttpsConnector::new and Client::with_connector
HttpsConnector(tls) == [kind |-> "HttpsConnector", roots |-> tls.roots]

Client_with_connector(conn) == [kind |-> "Client", roots |-> conn.roots]

(***************************************************************************)
(* Kluster::new                                                            *)
(***************************************************************************)
\* the struct fields are evaluated in order: Url::parse(server) returns
\* early through try!, then make_tlsclient(cert_path) runs
new(name, cert_path, server, token) ==
    LET endpoint == Url_parse(server)
        built == make_tlsclient(cert_path)
    IN  IF ~endpoint.ok
        THEN [res |-> UrlParseError, self |-> <<>>, reads |-> <<>>,
              warnings |-> 0]
        ELSE IF built.res.kind = "Panic"
        THEN [res |-> built.res, self |-> <<>>, reads |-> <<built.read>>,
              warnings |-> 0]
        ELSE [res |-> Ok("Kluster"),
              self |-> <<[name |-> name, endpoint |-> endpoint.url,
                          token |-> token, cert_path |-> cert_path,
                          client |-> Client_with_connector(
                                         HttpsConnector(built.tls))]>>,
              reads |-> <<built.read>>,
              warnings |-> built.warnings]

(***************************************************************************)
(* Requests                                                                *)
(***************************************************************************)
Authorization_Bearer(token) ==
    [name |-> "Authorization", value |-> <<"Bearer", token>>]

\* Client::get(url) and Request::with_connector(Method::Get, url, connector)
Client_get(client, url) ==
    [method |-> "GET", url |-> url, headers |-> {}, via |-> client,
     read_timeout |-> None]

Request_with_connector(url, conn) ==
    [method |-> "GET", url |-> url, headers |-> {}, via |-> conn,
     read_timeout |-> None]

header(req, h) == [req EXCEPT !.headers = @ \cup {h}]

\* mutant: the read timeout is never put on the socket
set_read_timeout_dropped(req, timeout) == req

set_read_timeout(req, timeout) == [req EXCEPT !.read_timeout = timeout]

\* req.send(): the response, or the hyper error mapped to a KubeError
send(reply) ==
    IF reply = "neterr" THEN KubeErrorFromHyper("network") ELSE Ok(reply)

\* serde_json::from_reader(resp) into the shape the caller asks for
from_reader(body, shape) ==
    IF body = "garbage" THEN KubeErrorFromSerde("syntax")
    ELSE IF body = "json_other" /\ shape = "T" THEN KubeErrorFromSerde("data")
    ELSE Ok(shape)

(***************************************************************************)
(* Kluster::send_req, get, get_read, get_value, up to the dispatch of the  *)
(* request: the receiver after the call, the result so far, the requests   *)
(* put on the wire, the CA files opened and the warnings printed           *)
(***************************************************************************)
\* mutant: the request goes out without the Authorization header
send_req_noauth(self, path) ==
    LET url == Url_join(self.endpoint, path)
        req == Client_get(self.client, url.url)
    IN  IF ~url.ok
        THEN [self |-> self, res |-> UrlJoinError, sent |-> <<>>,
              reads |-> <<>>, warnings |-> 0]
        ELSE [self |-> self, res |-> Pending, sent |-> <<req>>,
              reads |-> <<>>, warnings |-> 0]

\* mutant: the request is sent again after the first attempt
send_req_twice(self, path) ==
    LET url == Url_join(self.endpoint, path)
        req == header(Client_get(self.client, url.url),
                      Authorization_Bearer(self.token))
    IN  IF ~url.ok
        THEN [self |-> self, res |-> UrlJoinError, sent |-> <<>>,
              reads |-> <<>>, warnings |-> 0]
        ELSE [self |-> self, res |-> Pending, sent |-> <<req, req>>,
              reads |-> <<>>, warnings |-> 0]

send_req(self, path) ==
    LET url == Url_join(self.endpoint, path)
        req == header(Client_get(self.client, url.url),
                      Authorization_Bearer(self.token))
    IN  IF ~url.ok
        THEN [self |-> self, res |-> UrlJoinError, sent |-> <<>>,
              reads |-> <<>>, warnings |-> 0]
        ELSE [self |-> self, res |-> Pending, sent |-> <<req>>,
              reads |-> <<>>, warnings |-> 0]

get(self, path) == send_req(self, path)

get_value(self, path) == send_req(self, path)

\* the branch of get_read taken when a timeout is given
get_read_timed(self, path, timeout, sock) ==
    LET url == Url_join(self.endpoint, path)
        built == make_tlsclient(self.cert_path)
        req == set_read_timeout(
                   header(Request_with_connector(
                              url.url, HttpsConnector(built.tls)),
                          Authorization_Bearer(self.token)),
                   timeout)
    IN  IF ~url.ok
        THEN [self |-> self, res |-> UrlJoinError, sent |-> <<>>,
              reads |-> <<>>, warnings |-> 0]
        ELSE IF built.res.kind = "Panic"
        THEN [self |-> self, res |-> built.res, sent |-> <<>>,
              reads |-> <<built.read>>, warnings |-> 0]
        ELSE IF sock = "refused"
        THEN [self |-> self, res |-> KubeErrorFromHyper("connect"),
              sent |-> <<>>, reads |-> <<built.read>>,
              warnings |-> built.warnings]
        ELSE IF sock = "sockopt_failed"
        THEN [self |-> self, res |-> KubeErrorFromIo("set_read_timeout"),
              sent |-> <<>>, reads |-> <<built.read>>,
              warnings |-> built.warnings]
        ELSE [self |-> self, res |-> Pending, sent |-> <<req>>,
              reads |-> <<built.read>>, warnings |-> built.warnings]

\* mutant: a connector is built whether or not a timeout is given
get_read_always_fresh(self, path, timeout, sock) ==
    get_read_timed(self, path, timeout, sock)

\* mutant: the timed call goes through the shared client
get_read_shared(self, path, timeout, sock) == send_req(self, path)

\* mutant: the connector is built before the path is resolved
get_read_build_first(self, path, timeout, sock) ==
    LET built == make_tlsclient(self.cert_path)
        r == get_read_timed(self, path, timeout, sock)
    IN  IF timeout = None THEN send_req(self, path)
        ELSE IF built.res.kind = "Panic"
        THEN [self |-> self, res |-> built.res, sent |-> <<>>,
              reads |-> <<built.read>>, warnings |-> 0]
        ELSE [r EXCEPT !.reads = <<built.read>>,
                       !.warnings = built.warnings]

\* mutant: the timed call keeps its connector as the client's transport
get_read_caching(self, path, timeout, sock) ==
    LET r == get_read_timed(self, path, timeout, sock)
    IN  IF timeout = None THEN send_req(self, path)
        ELSE IF r.sent = <<>> THEN r
        ELSE [r EXCEPT !.self.client = r.sent[1].via]

get_read(self, path, timeout, sock) ==
    IF timeout # None
    THEN get_read_timed(self, path, timeout, sock)
    ELSE send_req(self, path)

\* the rest of each method, once the network layer has resolved
get_return(resp) ==
    IF resp.kind = "Err" THEN resp ELSE from_reader(resp.val, "T")

get_value_return(resp) ==
    IF resp.kind = "Err" THEN resp ELSE from_reader(resp.val, "Value")

get_read_return(resp) == resp

(***************************************************************************)
(* State machine                                                           *)
(***************************************************************************)
NoArgs == [name |-> "", cert_path |-> "", server |-> BadServer, token |-> ""]

Idle == [pc |-> "idle", op |-> "", path |-> BadPath, timeout |-> None,
         reply |-> "", res |-> Pending, sent |-> <<>>, reads |-> <<>>,
         warnings |-> 0]

InitWith(files) ==
    /\ fs \in {[p \in CertPaths |-> IF p = "ca.pem" THEN f ELSE AltFile] :
                f \in files}
    /\ ctor = [pc |-> "init", args |-> NoArgs, res |-> Pending,
               reads |-> <<>>, warnings |-> 0]
    /\ kluster = <<>>
    /\ calls = [t \in Threads |-> Idle]

Init == InitWith(CAFiles)

\* the environment rewrites or removes the CA bundle
WriteFile(f) ==
    /\ f # fs["ca.pem"]
    /\ fs' = [fs EXCEPT !["ca.pem"] = f]
    /\ UNCHANGED <<ctor, kluster, calls>>

New(name, cert_path, server, token) ==
    /\ ctor.pc = "init"
    /\ LET r == new(name, cert_path, server, token)
       IN  /\ ctor' = [pc |-> "done",
                       args |-> [name |-> name, cert_path |-> cert_path,
                                 server |-> server, token |-> token],
                       res |-> r.res, reads |-> r.reads,
                       warnings |-> r.warnings]
           /\ kluster' = r.self
    /\ UNCHANGED <<fs, calls>>

\* the failures of the connect and of the socket option, which end the
\* timed get_read before anything is sent
NetFailures == {KubeErrorFromHyper("connect"),
                KubeErrorFromIo("set_read_timeout")}

Started(t, op, path, timeout, r) ==
    /\ calls' = [calls EXCEPT ![t] =
                    [pc |-> IF r.res.kind = "Pending" THEN "waiting"
                            ELSE "done",
                     op |-> op, path |-> path, timeout |-> timeout,
                     reply |-> IF r.res \in NetFailures THEN r.res.cause
                               ELSE "",
                     res |-> r.res, sent |-> r.sent,
                     reads |-> r.reads, warnings |-> r.warnings]]
    /\ kluster' = <<r.self>>
    /\ UNCHANGED <<fs, ctor>>

Get(t, path) ==
    /\ kluster # <<>>
    /\ calls[t].pc = "idle"
    /\ Started(t, "get", path, None, get(kluster[1], path))

GetValue(t, path) ==
    /\ kluster # <<>>
    /\ calls[t].pc = "idle"
    /\ Started(t, "get_value", path, None, get_value(kluster[1], path))

GetRead(t, path, timeout, sock) ==
    /\ kluster # <<>>
    /\ calls[t].pc = "idle"
    /\ timeout = None => sock = "ready"
    /\ Started(t, "get_read", path, timeout,
               get_read(kluster[1], path, timeout, sock))

Returned(op, resp) ==
    IF op = "get" THEN get_return(resp)
    ELSE IF op = "get_value" THEN get_value_return(resp)
    ELSE get_read_return(resp)

\* the network layer resolves the request in flight
Respond(t, reply) ==
    /\ calls[t].pc = "waiting"
    /\ calls' = [calls EXCEPT ![t].pc = "done", ![t].reply = reply,
                               ![t].res = Returned(calls[t].op, send(reply))]
    /\ UNCHANGED <<fs, ctor, kluster>>

\* the socket's read timeout expires before the server says anything
ReadTimeout(t) ==
    /\ calls[t].pc = "waiting"
    /\ calls[t].sent[Len(calls[t].sent)].read_timeout # None
    /\ calls' = [calls EXCEPT ![t].pc = "done", ![t].reply = "silent",
                               ![t].res = Returned(calls[t].op,
                                              KubeErrorFromHyper("timeout"))]
    /\ UNCHANGED <<fs, ctor, kluster>>

\* the caller takes the result and is free to call again
Return(t) ==
    /\ calls[t].pc = "done"
    /\ calls' = [calls EXCEPT ![t] = Idle]
    /\ UNCHANGED <<fs, ctor, kluster>>

\* one caller, every CA bundle of up to MaxBlocks blocks
Next ==
    \/ \E f \in CAFiles : WriteFile(f)
    \/ \E n \in Names, p \in CertPaths, s \in Servers, k \in Tokens :
           New(n, p, s, k)
    \/ \E t \in Callers, p \in Paths : Get(t, p)
    \/ \E t \in Callers, p \in Paths : GetValue(t, p)
    \/ \E t \in Callers, p \in Paths, d \in Timeouts, s \in SockOutcomes :
           GetRead(t, p, d, s)
    \/ \E t \in Callers, r \in Replies : Respond(t, r)
    \/ \E t \in Callers : ReadTimeout(t)
    \/ \E t \in Callers : Return(t)

Spec == Init /\ [][Next]_vars

\* CA bundles of at most one block
ConcInit == InitWith(SmallFiles)

\* one caller; a read timeout that is set on the socket does expire
LiveNext ==
    \/ \E f \in SmallFiles : WriteFile(f)
    \/ \E n \in Names, p \in CertPaths, s \in Servers, k \in Tokens :
           New(n, p, s, k)
    \/ \E t \in Callers, p \in Paths : Get(t, p)
    \/ \E t \in Callers, p \in Paths : GetValue(t, p)
    \/ \E t \in Callers, p \in Paths, d \in Timeouts, s \in SockOutcomes :
           GetRead(t, p, d, s)
    \/ \E t \in Callers, r \in Replies : Respond(t, r)
    \/ \E t \in Callers : ReadTimeout(t)
    \/ \E t \in Callers : Return(t)

LiveSpec ==
    /\ ConcInit
    /\ [][LiveNext]_vars
    /\ \A t \in Callers : WF_vars(ReadTimeout(t))

\* concurrent callers on one Kluster

ConcNext ==
    \/ \E f \in SmallFiles : WriteFile(f)
    \/ \E n \in Names, p \in CertPaths, s \in Servers, k \in Tokens :
           New(n, p, s, k)
    \/ \E t \in Threads, p \in Paths : Get(t, p)
    \/ \E t \in Threads, p \in Paths : GetValue(t, p)
    \/ \E t \in Threads, p \in Paths, d \in Timeouts, s \in SockOutcomes :
           GetRead(t, p, d, s)
    \/ \E t \in Threads, r \in Replies : Respond(t, r)
    \/ \E t \in Threads : ReadTimeout(t)
    \/ \E t \in Threads : Return(t)

ConcSpec == ConcInit /\ [][ConcNext]_vars

(***************************************************************************)
(* Properties                                                              *)
(***************************************************************************)
GoodCerts(f) == Count(f.blocks, "good")

AllGood(f) == \A i \in DOMAIN f.blocks : f.blocks[i] = "good"

\* the arguments of Kluster::new and what it built from them
EndpointAtConstruction == Url_parse(ctor.args.server).url

ClientAtConstruction ==
    [kind |-> "Client", roots |-> GoodCerts(ctor.reads[1])]

Timed(c) == c.op = "get_read" /\ c.timeout # None

Untimed(c) == c.pc # "idle" /\ ~Timed(c)

\* C1: with a valid server URL and a CA file that cannot be opened,
\* Kluster::new returns a CertificateLoadError and builds no client.
C1_CertificateLoadErrorReturned ==
    (/\ ctor.pc = "done"
     /\ Url_parse(ctor.args.server).ok
     /\ ctor.reads # <<>>
     /\ ~ctor.reads[1].exists)
    => /\ ctor.res.kind = "Err"
       /\ ctor.res.val = "CertificateLoadError"
       /\ kluster = <<>>

\* a failure that a finished call has met: an unresolvable path, a CA file
\* that cannot be opened or parsed, a failed connect or socket option, a
\* network failure, a timeout, a body that does not deserialize
MetFailure(c) ==
    \/ c.path = BadPath
    \/ c.reads # <<>> /\ (~c.reads[1].exists
                          \/ Count(c.reads[1].blocks, "badb64") > 0)
    \/ c.reply \in {"connect", "set_read_timeout", "neterr", "silent"}
    \/ c.op = "get" /\ c.reply \in {"garbage", "json_other"}
    \/ c.op = "get_value" /\ c.reply = "garbage"

\* C2: every operation that meets a failure returns it as an error value;
\* none terminates abnormally, none reports success after a failure.
C2_FailuresReturnedAsErrors ==
    \A t \in Threads :
        calls[t].pc = "done"
        => /\ calls[t].res.kind \in {"Ok", "Err"}
           /\ MetFailure(calls[t]) => calls[t].res.kind = "Err"

\* C3: every request put on the wire carries exactly one Authorization
\* header, Bearer with the token given to Kluster::new.
C3_BearerTokenOnEveryRequest ==
    \A t \in Threads :
        \A i \in DOMAIN calls[t].sent :
            {h \in calls[t].sent[i].headers : h.name = "Authorization"}
                = {[name |-> "Authorization",
                    value |-> <<"Bearer", ctor.args.token>>]}

C3_Witness ==
    /\ calls["t1"].pc = "done"
    /\ Timed(calls["t1"])
    /\ calls["t1"].res.kind = "Ok"
    /\ calls["t1"].sent # <<>>
    /\ ctor.args.token = "tokB"

\* the outcome of the send primitive on a path, given what came back
PrimitiveOutcome(path, reply) ==
    IF path = BadPath THEN UrlJoinError
    ELSE IF reply = "neterr" THEN Err("TransportError", "network")
    ELSE Ok(reply)

\* C4: get_read without a timeout opens no CA file, builds no connector,
\* sends through the client built by Kluster::new, and ends as the send
\* primitive does on the same path.
C4_UntimedGetRawReusesTransport ==
    \A t \in Threads :
        (calls[t].op = "get_read" /\ calls[t].timeout = None)
        => /\ calls[t].reads = <<>>
           /\ calls[t].warnings = 0
           /\ calls[t].sent = send_req(kluster[1], calls[t].path).sent
           /\ \A i \in DOMAIN calls[t].sent :
                  /\ calls[t].sent[i].via = ClientAtConstruction
                  /\ calls[t].sent[i].read_timeout = None
           /\ calls[t].pc = "done"
              => calls[t].res = PrimitiveOutcome(calls[t].path, calls[t].reply)

C4_Witness ==
    /\ calls["t1"].pc = "done"
    /\ calls["t1"].op = "get_read"
    /\ calls["t1"].timeout = None
    /\ calls["t1"].res = Ok("json_T")
    /\ Len(calls["t1"].sent) = 1

\* what a timed get_read that opened the CA file f does with it
FreshConnectorUsed(c) ==
    /\ Len(c.reads) = 1
    /\ ctor.args.cert_path = "alt.pem" <=> c.reads[1] = AltFile
    /\ \A i \in DOMAIN c.sent :
           /\ c.sent[i].via = [kind |-> "HttpsConnector",
                               roots |-> GoodCerts(c.reads[1])]
           /\ c.sent[i].read_timeout = c.timeout
    /\ kluster[1].client = ClientAtConstruction

\* C5 as stated: each get_read with a timeout opens the CA file at the
\* stored cert_path once, sends over the connector built from it with the
\* read timeout set, and leaves the shared client as it was.
C5_EveryTimedCallBuildsConnector ==
    \A t \in Threads : Timed(calls[t]) => FreshConnectorUsed(calls[t])

\* C5 as amended: each get_read with a timeout whose path resolves against
\* the endpoint invokes make_tlsclient once on the stored cert_path; any
\* request it sends goes over the connector built from that read, with the
\* read timeout set; the shared client is left as it was.  A timed call
\* whose path does not resolve opens no CA file.
C5_ResolvedTimedCallBuildsConnector ==
    \A t \in Threads :
        Timed(calls[t])
        => IF Url_join(EndpointAtConstruction, calls[t].path).ok
           THEN FreshConnectorUsed(calls[t])
           ELSE calls[t].reads = <<>> /\ calls[t].sent = <<>>

C5_Witness ==
    /\ calls["t1"].pc = "done"
    /\ Timed(calls["t1"])
    /\ calls["t1"].res.kind = "Ok"
    /\ Len(calls["t1"].reads) = 1
    /\ Len(calls["t1"].sent) = 1
    /\ calls["t1"].sent[1].via.roots # kluster[1].client.roots

\* C6: a call whose path does not resolve against the endpoint returns
\* UrlJoinError, having sent nothing and opened no CA file.
C6_UnresolvablePathReturnsUrlJoinError ==
    \A t \in Threads :
        (calls[t].pc # "idle" /\ calls[t].path = BadPath)
        => /\ calls[t].pc = "done"
           /\ calls[t].res = Err("UrlJoinError", "Url::join")
           /\ calls[t].sent = <<>>
           /\ calls[t].reads = <<>>
           /\ calls[t].warnings = 0

C6_Witness ==
    /\ calls["t1"].pc = "done"
    /\ Timed(calls["t1"])
    /\ calls["t1"].path = BadPath
    /\ ~fs[ctor.args.cert_path].exists

\* C7: one call puts at most one GET on the wire, whether it succeeds or
\* fails, and the request is built from scratch: the path resolved against
\* the endpoint, the bearer header attached.
C7_AtMostOneRequestPerCall ==
    \A t \in Threads :
        /\ Len(calls[t].sent) <= 1
        /\ calls[t].pc = "waiting" => Len(calls[t].sent) = 1
        /\ calls[t].reply \in Replies \cup {"silent"}
           => Len(calls[t].sent) = 1
        /\ \A i \in DOMAIN calls[t].sent :
               /\ calls[t].sent[i].method = "GET"
               /\ calls[t].sent[i].url
                      = Url_join(EndpointAtConstruction, calls[t].path).url
               /\ Authorization_Bearer(ctor.args.token)
                      \in calls[t].sent[i].headers

C7_Witness ==
    /\ calls["t1"].pc = "done"
    /\ calls["t1"].op = "get"
    /\ calls["t1"].reply = "neterr"
    /\ calls["t1"].res.kind = "Err"
    /\ Len(calls["t1"].sent) = 1

\* C8: make_tlsclient on a CA file that opens does not fail, whatever
\* blocks it holds: the trust store holds every certificate that parsed,
\* and one warning is printed exactly when some block did not.
BestEffort(f, res, warnings) ==
    f.exists => /\ res.kind # "Panic"
                /\ warnings = IF AllGood(f) THEN 0 ELSE 1

C8_BestEffortTrustStore ==
    /\ ctor.reads # <<>>
       => /\ BestEffort(ctor.reads[1], ctor.res, ctor.warnings)
          /\ kluster # <<>>
             => kluster[1].client.roots = GoodCerts(ctor.reads[1])
    /\ \A t \in Threads :
           calls[t].reads # <<>>
           => /\ BestEffort(calls[t].reads[1], calls[t].res,
                            calls[t].warnings)
              /\ \A i \in DOMAIN calls[t].sent :
                     calls[t].sent[i].via.roots = GoodCerts(calls[t].reads[1])

\* C9: a get_read with a timeout that is waiting for the server ends, and
\* when the server stayed silent it ends with the timeout error; a call
\* without a timeout has no timeout to fire and ends only on what the
\* network layer brings.
C9_TimedGetRawTerminates ==
    /\ \A t \in Callers :
           (calls[t].pc = "waiting" /\ Timed(calls[t]))
               ~> (calls[t].pc = "done")
    /\ [](\A t \in Callers :
             /\ (calls[t].pc = "done" /\ calls[t].reply = "silent")
                => /\ Timed(calls[t])
                   /\ calls[t].res = Err("TransportError", "timeout")
             /\ (calls[t].pc = "waiting" /\ Untimed(calls[t]))
                => ~ENABLED ReadTimeout(t)
             /\ (calls[t].pc = "done" /\ Untimed(calls[t])
                 /\ calls[t].sent # <<>>)
                => calls[t].reply \in Replies)

C9_Witness ==
    /\ calls["t1"].pc = "done"
    /\ Timed(calls["t1"])
    /\ calls["t1"].reply = "silent"
    /\ calls["t1"].res = Err("TransportError", "timeout")

\* the fields of the Kluster are those Kluster::new gave it
FieldsAsConstructed ==
    kluster # <<>>
    => kluster[1] = [name |-> ctor.args.name,
                     endpoint |-> EndpointAtConstruction,
                     token |-> ctor.args.token,
                     cert_path |-> ctor.args.cert_path,
                     client |-> ClientAtConstruction]

SameInputs(c, d) ==
    /\ c.pc = "done" /\ d.pc = "done"
    /\ c.op = d.op /\ c.path = d.path /\ c.timeout = d.timeout
    /\ c.reply = d.reply

SameOutcome(c, d) == c.res = d.res /\ c.warnings = d.warnings

\* C10 as stated: the fields never change, and two calls of the same
\* operation with the same path, timeout and server reply end alike.
C10_OutcomeFunctionOfInputs ==
    /\ FieldsAsConstructed
    /\ \A t, u \in Threads :
           SameInputs(calls[t], calls[u]) => SameOutcome(calls[t], calls[u])

\* C10 as amended: the fields never change, and two calls of the same
\* operation with the same path, timeout and server reply that found the
\* same content in the CA file (when they opened it) end alike, whatever
\* ran before or beside them.
C10_OutcomeFunctionOfInputsAndCAFile ==
    /\ FieldsAsConstructed
    /\ \A t, u \in Threads :
           (SameInputs(calls[t], calls[u]) /\ calls[t].reads = calls[u].reads)
           => SameOutcome(calls[t], calls[u])

C10_Witness ==
    /\ SameInputs(calls["t1"], calls["t2"])
    /\ Timed(calls["t1"])
    /\ calls["t1"].reads = calls["t2"].reads
    /\ calls["t1"].res.kind = "Ok"
    /\ calls["t1"].warnings = 1
    /\ fs[ctor.args.cert_path] # calls["t1"].reads[1]

====
